---------------------------- MODULE Spec2Model ----------------------------
(***************************************************************************)
(* A model of the Monster-group package: monster_group.py (MonsterGroup,   *)
(* MonsterElement) and monster_utils.py (format_large_number,              *)
(* compare_group_orders).                                                  *)
(*                                                                         *)
(* Python's int is arbitrary precision while TLC's integers are 32 bit, so *)
(* a Python int is modelled by its magnitude in base 1000: a sequence of   *)
(* limbs 0..999, least significant first, with no zero as its highest      *)
(* limb; zero is the empty sequence.  A Python float is modelled exactly   *)
(* as a binary64 value [m, e] standing for m * 2^e with 2^52 <= m < 2^53.  *)
(***************************************************************************)
EXTENDS Integers, Sequences, FiniteSets, TLC

---------------------------------------------------------------------------
(* Python int arithmetic on magnitudes.                                    *)

\* F applied to the value of e, which is evaluated once, before F
Let(e, F(_)) == CHOOSE r \in {F(x) : x \in {e}} : TRUE

Max(i, j) == IF i >= j THEN i ELSE j

\* the index of the highest limb of a that is not 0; 0 if there is none
TopIndex(a) ==
    CHOOSE i \in 0..Len(a) :
        /\ i = 0 \/ a[i] # 0
        /\ \A j \in (i + 1)..Len(a) : a[j] = 0

\* a without the zeros above its highest limb
Strip(a) == SubSeq(a, 1, TopIndex(a))

RECURSIVE IntToBig(_)
IntToBig(n) ==
    IF n = 0 THEN << >> ELSE <<n % 1000>> \o IntToBig(n \div 1000)

\* limb i of a, 0 above its highest
Limb(a, i) == IF i <= Len(a) THEN a[i] ELSE 0

\* the limbs f[1], ..., f[n], each evaluated
Limbs(f, n) == SubSeq(f, 1, n)

\* s holds sums of two limbs: a carry enters limb i from the nearest limb
\* below it that is not 999, when that limb is 1000 or more
CarryInto(s, i) ==
    \E j \in 1..(i - 1) :
        /\ s[j] >= 1000
        /\ \A k \in (j + 1)..(i - 1) : s[k] = 999

Carried(s) ==
    Strip(Limbs([i \in 1..(Len(s) + 1) |->
                    (Limb(s, i) + (IF CarryInto(s, i) THEN 1 ELSE 0)) % 1000],
                Len(s) + 1))

BigAdd(a, b) ==
    Let(Limbs([i \in 1..Max(Len(a), Len(b)) |-> Limb(a, i) + Limb(b, i)],
              Max(Len(a), Len(b))),
        LAMBDA s : Carried(s))

\* d holds differences of two limbs: a borrow leaves limb i for the nearest
\* limb below it that is not 0, when that limb is negative
BorrowFrom(d, i) ==
    \E j \in 1..(i - 1) :
        /\ d[j] < 0
        /\ \A k \in (j + 1)..(i - 1) : d[k] = 0

Borrowed(d) ==
    Strip(Limbs([i \in 1..Len(d) |->
                    (d[i] + 1000 - (IF BorrowFrom(d, i) THEN 1 ELSE 0)) % 1000],
                Len(d)))

\* a - b for a >= b
BigSub(a, b) ==
    Let(Limbs([i \in 1..Len(a) |-> a[i] - Limb(b, i)], Len(a)),
        LAMBDA d : Borrowed(d))

\* the highest limb in which a and b, of one length, differ
TopDifference(a, b) ==
    CHOOSE i \in 1..Len(a) :
        /\ a[i] # b[i]
        /\ \A j \in (i + 1)..Len(a) : a[j] = b[j]

\* -1, 0 or 1 as a < b, a = b, a > b
BigCmp(a, b) ==
    IF Len(a) > Len(b) THEN 1
    ELSE IF Len(a) < Len(b) THEN -1
    ELSE IF a = b THEN 0
    ELSE IF a[TopDifference(a, b)] > b[TopDifference(a, b)] THEN 1
    ELSE -1

\* a * k for a machine-small k, 0 <= k < 1000: the low parts of the limbs'
\* products, and their high parts one limb up
MulSmall(a, k) ==
    Let(Limbs([i \in 1..(Len(a) + 1) |->
                  ((Limb(a, i) * k) % 1000)
                  + (IF i = 1 THEN 0 ELSE (a[i - 1] * k) \div 1000)],
              Len(a) + 1),
        LAMBDA s : Carried(s))

ShiftLimb(a) == IF a = << >> THEN << >> ELSE <<0>> \o a

\* the sum of a * b[j] * 1000^(j-i) over j = i..Len(b), given acc for j > i
RECURSIVE MulFrom(_, _, _, _)
MulFrom(a, b, i, acc) ==
    IF i = 0 THEN acc
    ELSE Let(BigAdd(MulSmall(a, b[i]), ShiftLimb(acc)), LAMBDA nxt :
             MulFrom(a, b, i - 1, nxt))

BigMul(a, b) ==
    IF b = << >> \/ a = << >> THEN << >> ELSE MulFrom(a, b, Len(b), << >>)

\* base ** e for a machine-small base, 0 < base < 1000
RECURSIVE BigPow(_, _)
BigPow(base, e) ==
    IF e = 0 THEN <<1>>
    ELSE Let(BigPow(base, e - 1), LAMBDA h : MulSmall(h, base))

\* 2 ** k, nine factors of 2 at a time
RECURSIVE Pow2(_)
Pow2(k) ==
    IF k < 9 THEN <<2 ^ k>>
    ELSE Let(Pow2(k - 9), LAMBDA h : MulSmall(h, 512))

\* 10 ** k
Pow10(k) ==
    Limbs([i \in 1..(k \div 3 + 1) |->
              IF i <= k \div 3 THEN 0 ELSE 10 ^ (k % 3)],
          k \div 3 + 1)

\* the largest q in lo..hi with q * b <= r (lo * b <= r is given)
RECURSIVE QuotSearch(_, _, _, _)
QuotSearch(r, b, lo, hi) ==
    IF lo = hi THEN lo
    ELSE IF BigCmp(MulSmall(b, (lo + hi + 1) \div 2), r) <= 0
         THEN QuotSearch(r, b, (lo + hi + 1) \div 2, hi)
         ELSE QuotSearch(r, b, lo, (lo + hi + 1) \div 2 - 1)

\* one step of the long division: the limb d of the quotient is found
DivStep(cur, b, d, q) == [q |-> <<d>> \o q, r |-> BigSub(cur, MulSmall(b, d))]

\* long division by b, the highest limb first: limb i of a is brought down
\* to the remainder r of the limbs above it, q holds their quotient limbs
RECURSIVE DivFrom(_, _, _, _, _)
DivFrom(a, b, i, q, r) ==
    IF i = 0 THEN [q |-> Strip(q), r |-> r]
    ELSE Let(Strip(<<a[i]>> \o r), LAMBDA cur :
             Let(DivStep(cur, b, QuotSearch(cur, b, 0, 999), q), LAMBDA n :
                 DivFrom(a, b, i - 1, n.q, n.r)))

\* floor division and remainder of magnitudes, b > 0
BigDivMod(a, b) == DivFrom(a, b, Len(a), << >>, << >>)

IsEven(a) == a = << >> \/ Head(a) % 2 = 0

\* the quotient d.q, or the next integer where the remainder d.r calls for it
RoundUp(d, c) ==
    IF c > 0 \/ (c = 0 /\ ~IsEven(d.q)) THEN BigAdd(d.q, <<1>>) ELSE d.q

\* a / b rounded to the nearest integer, ties to even
RoundDiv(a, b) ==
    Let(BigDivMod(a, b), LAMBDA d : RoundUp(d, BigCmp(MulSmall(d.r, 2), b)))

\* the number of decimal digits of a > 0, len(str(a))
DecLen(a) ==
    3 * (Len(a) - 1)
    + (IF a[Len(a)] >= 100 THEN 3 ELSE IF a[Len(a)] >= 10 THEN 2 ELSE 1)

\* a magnitude below 10^6 as a machine integer
BigToInt(a) == Limb(a, 1) + 1000 * Limb(a, 2)

---------------------------------------------------------------------------
(* Python float (IEEE binary64), for positive finite values in the normal  *)
(* range: [m |-> magnitude with 2^52 <= m < 2^53, e |-> exponent].         *)

RECURSIVE BitLenFrom(_, _)
BitLenFrom(a, k) ==
    IF BigCmp(Pow2(k), a) > 0 THEN k ELSE BitLenFrom(a, k + 1)

\* the number of bits of a > 0; 2^k0 <= 10^(DecLen(a)-1) <= a starts the search
BitLen(a) == BitLenFrom(a, ((DecLen(a) - 1) * 3321) \div 1000)

\* a * 2^s / b rounded to the nearest integer, ties to even
ScaledQuot(a, b, s) ==
    RoundDiv(BigMul(a, Pow2(Max(s, 0))), BigMul(b, Pow2(Max(-s, 0))))

\* m is 2^53 where the rounding carried into a 54th bit
Normalized(m, s) ==
    IF m = Pow2(53) THEN [m |-> Pow2(52), e |-> 1 - s]
    ELSE [m |-> m, e |-> -s]

\* a / b as m * 2^-s with 53 bits: s = 52 - k, or 53 - k where a / b < 2^k
TrueDivAt(a, b, k) ==
    Let(IF BigCmp(BigMul(a, Pow2(Max(-k, 0))), BigMul(b, Pow2(Max(k, 0)))) >= 0
        THEN 52 - k ELSE 53 - k, LAMBDA s :
        Normalized(ScaledQuot(a, b, s), s))

\* Python's int / int: the binary64 value nearest to a / b (a, b > 0)
TrueDiv(a, b) == Let(BitLen(a) - BitLen(b), LAMBDA k : TrueDivAt(a, b, k))

\* float(n) for an int n > 0
IntToFloat(n) == TrueDiv(n, <<1>>)

\* the value of a float as the fraction num / den
FloatNum(f) == BigMul(f.m, Pow2(Max(f.e, 0)))

FloatDen(f) == Pow2(Max(-f.e, 0))

\* -1, 0 or 1 as f < 1, f = 1, f > 1
FloatCmpOne(f) == BigCmp(FloatNum(f), FloatDen(f))

\* 1 / f
FloatRecip(f) == TrueDiv(FloatDen(f), FloatNum(f))

\* f * 10^k rounded to the nearest integer, ties to even, as the float
\* formatting of CPython rounds the exact binary value
RoundScaled(f, k) ==
    RoundDiv(BigMul(FloatNum(f), Pow10(Max(k, 0))),
             BigMul(FloatDen(f), Pow10(Max(-k, 0))))

\* floor(log10(n / d)), exactly, k being the difference of their lengths
DecimalExponentAt(n, d, k) ==
    IF BigCmp(BigMul(n, Pow10(Max(-k, 0))), BigMul(d, Pow10(Max(k, 0)))) >= 0
    THEN k ELSE k - 1

DecimalExponentOf(n, d) == DecimalExponentAt(n, d, DecLen(n) - DecLen(d))

\* floor(log10(f)), exactly
DecimalExponent(f) == DecimalExponentOf(FloatNum(f), FloatDen(f))

---------------------------------------------------------------------------
(* str() and format() of numbers.                                          *)

\* TLA+ strings are ASCII: these stand for the characters U+2248 and U+00D7
AlmostEqual == "~"

Times == "x"

DigitChars == <<"0", "1", "2", "3", "4", "5", "6", "7", "8", "9">>

Digit(d) == DigitChars[d + 1]

\* a limb as three digits
LimbStr(d) == Digit(d \div 100) \o Digit((d \div 10) % 10) \o Digit(d % 10)

\* a limb without its leading zeros, str(d) for 0 <= d < 1000
TopStr(d) ==
    IF d >= 100 THEN LimbStr(d)
    ELSE IF d >= 10 THEN Digit(d \div 10) \o Digit(d % 10)
    ELSE Digit(d)

RECURSIVE LimbsStr(_, _, _)
LimbsStr(a, i, sep) ==
    IF i = 0 THEN "" ELSE sep \o LimbStr(a[i]) \o LimbsStr(a, i - 1, sep)

\* str(n) for a magnitude
BigToStr(a) ==
    IF a = << >> THEN "0"
    ELSE TopStr(a[Len(a)]) \o LimbsStr(a, Len(a) - 1, "")

\* f"{n:,}" for an int n = [neg, mag]
FormatComma(n) ==
    (IF n.neg THEN "-" ELSE "")
    \o (IF n.mag = << >> THEN "0"
        ELSE TopStr(n.mag[Len(n.mag)]) \o LimbsStr(n.mag, Len(n.mag) - 1, ","))

\* the hundredths a float x > 0 is printed with: round(x * 100)
Hundredths(f) == RoundScaled(f, 2)

\* two digits
TwoDigits(r) == Digit(r \div 10) \o Digit(r % 10)

\* h hundredths, written with two decimals
HundredthsStr(d) == BigToStr(d.q) \o "." \o TwoDigits(BigToInt(d.r))

\* f"{x:.2f}" for a float x > 0
Format2f(f) == HundredthsStr(BigDivMod(Hundredths(f), <<100>>))

\* d.dd e+xx, for the three digits h and the exponent x
SciStr(h, x) ==
    Digit(h \div 100) \o "." \o TwoDigits(h % 100)
    \o "e" \o (IF x < 0 THEN "-" ELSE "+")
    \o (IF x < 10 /\ x > -10 THEN "0" ELSE "")
    \o TopStr(IF x < 0 THEN -x ELSE x)

\* the three digits kept of f at the decimal exponent x0; 1000 is a carry
Format2eAt(f, x0) ==
    Let(BigToInt(RoundScaled(f, 2 - x0)), LAMBDA h0 :
        IF h0 = 1000 THEN SciStr(100, x0 + 1) ELSE SciStr(h0, x0))

\* f"{x:.2e}" for a float x > 0
Format2e(f) == Let(DecimalExponent(f), LAMBDA x0 : Format2eAt(f, x0))

---------------------------------------------------------------------------
(* math.log10 followed by int(): CPython converts the int to a float and   *)
(* calls the C library's log10; the result is modelled as the binary64     *)
(* value nearest to the true logarithm.  It reaches the next integer       *)
(* top = d + 1 exactly when top - log10(x) is under half the spacing of    *)
(* the floats just below top, that is when                                 *)
(*   (10^top - x) / 10^top  <  ln(10) * 2^(j - 53),   2^j < top <= 2^(j+1) *)

\* ln(10) * 10^15, rounded: 2302585092994046
Ln10E15 == <<46, 994, 92, 585, 302, 2>>

RECURSIVE CeilLog2From(_, _)
CeilLog2From(t, j) == IF 2 ^ j >= t THEN j ELSE CeilLog2From(t, j + 1)

CeilLog2(t) == CeilLog2From(t, 0)

\* the exact integer value of a float f >= 1
FloatValue(f) == BigDivMod(FloatNum(f), FloatDen(f)).q

\* the exact integer value of float(n), n >= 1
FloatOfIntValue(n) == FloatValue(IntToFloat(n))

\* log10(x) rounds to top, the number of digits of x
Log10RoundsUpTo(x, top) ==
    BigCmp(BigMul(BigMul(BigSub(Pow10(top), x), Pow10(15)),
                  Pow2(54 - CeilLog2(top))),
           BigMul(Pow10(top), Ln10E15)) < 0

Log10RoundsUp(x) == Log10RoundsUpTo(x, DecLen(x))

\* int(math.log10(x)) for x the value of a float
Log10Of(x) == IF Log10RoundsUp(x) THEN DecLen(x) ELSE DecLen(x) - 1

\* int(math.log10(n)) for an int n > 0
Log10Int(n) == Let(FloatOfIntValue(n), LAMBDA x : Log10Of(x))

---------------------------------------------------------------------------
(* Python values, tagged by their type.                                    *)

None == [t |-> "None"]

Bool(b) == [t |-> "bool", b |-> b]

\* an int n >= 0 of magnitude mag
PyInt(mag) == [t |-> "int", neg |-> FALSE, mag |-> mag]

Str(s) == [t |-> "str", s |-> s]

List(items) == [t |-> "list", items |-> items]

\* a dict: its items in insertion order, each <<key, value>>
Dict(items) == [t |-> "dict", items |-> items]

Ellipsis == [t |-> "ellipsis"]

\* an exception leaving the call
Raised(exc) == [t |-> "raised", exc |-> exc]

\* bool(x) of an Optional[str]
Truthy(x) == x.t = "str" /\ x.s # ""

\* a magnitude written as its groups of three digits, the highest first
RECURSIVE Groups(_)
Groups(g) == IF g = << >> THEN << >> ELSE Groups(Tail(g)) \o <<Head(g)>>

Keys(items) == {items[i][1] : i \in 1..Len(items)}

---------------------------------------------------------------------------
(* class MonsterGroup                                                      *)

\* 808,017,424,794,512,875,886,459,904,961,710,757,005,754,368,000,000,000
ORDER ==
    Groups(<<808, 17, 424, 794, 512, 875, 886, 459, 904, 961, 710, 757,
             5, 754, 368, 0, 0, 0>>)

MonsterGroup__init__ ==
    [_generators |-> None, _name |-> Str("Monster"), _symbol |-> Str("M")]

\* Every method is an operator from the instance to the instance it leaves
\* and the value it returns.

MonsterGroup_order(self) == [self |-> self, result |-> PyInt(ORDER)]

MonsterGroup_name(self) == [self |-> self, result |-> self._name]

MonsterGroup_symbol(self) == [self |-> self, result |-> self._symbol]

is_sporadic(self) == [self |-> self, result |-> Bool(TRUE)]

is_simple(self) == [self |-> self, result |-> Bool(TRUE)]

\* Two tables that are not the shipped one: an exponent off by one, and an
\* entry short.
FactorizationWrongExponent ==
    << <<2, 46>>, <<3, 20>>, <<5, 9>>, <<7, 6>>, <<11, 2>>, <<13, 3>>,
       <<17, 1>>, <<19, 1>>, <<23, 1>>, <<29, 1>>, <<31, 1>>, <<41, 1>>,
       <<47, 1>>, <<59, 1>>, <<71, 2>> >>

FactorizationWithout71 ==
    << <<2, 46>>, <<3, 20>>, <<5, 9>>, <<7, 6>>, <<11, 2>>, <<13, 3>>,
       <<17, 1>>, <<19, 1>>, <<23, 1>>, <<29, 1>>, <<31, 1>>, <<41, 1>>,
       <<47, 1>>, <<59, 1>> >>

\* the dict literal of get_factorization
FactorizationLiteral ==
    << <<2, 46>>, <<3, 20>>, <<5, 9>>, <<7, 6>>, <<11, 2>>, <<13, 3>>,
       <<17, 1>>, <<19, 1>>, <<23, 1>>, <<29, 1>>, <<31, 1>>, <<41, 1>>,
       <<47, 1>>, <<59, 1>>, <<71, 1>> >>

\* a get_factorization that hands out the one table the class keeps
get_factorization_shared(self, h) ==
    IF 1 \in DOMAIN h THEN [self |-> self, result |-> 1, heap |-> h]
    ELSE [self |-> self, result |-> 1,
          heap |-> [x \in DOMAIN h \cup {1} |->
                       IF x = 1 THEN FactorizationLiteral ELSE h[x]]]

\* The heap h maps the references of the live dicts to their items.  A dict
\* display builds a new object on every evaluation.
NewRef(h) == CHOOSE r \in 1..(Cardinality(DOMAIN h) + 1) : r \notin DOMAIN h

NewDict(h, items) ==
    LET r == NewRef(h)
    IN  [ref |-> r, heap |-> [x \in DOMAIN h \cup {r} |->
                                 IF x = r THEN items ELSE h[x]]]

get_factorization(self, h) ==
    LET d == NewDict(h, FactorizationLiteral)
    IN  [self |-> self, result |-> d.ref, heap |-> d.heap]

\* verify_order, statement by statement
\* factorization = self.get_factorization(), g being what that call gave;
\* calculated_order = 1
verify_order_begin(g) ==
    [self |-> g.self, factorization |-> g.result, heap |-> g.heap,
     calculated_order |-> <<1>>]

\* a loop body that multiplies by prime * power
verify_order_body_times(calculated_order, prime, power) ==
    BigMul(calculated_order, IntToBig(prime * power))

\* calculated_order *= prime ** power
verify_order_body(calculated_order, prime, power) ==
    BigMul(calculated_order, BigPow(prime, power))

\* return calculated_order == self.ORDER
verify_order_return(calculated_order, order) ==
    Bool(calculated_order = order)

get_maximal_subgroups_info(self) ==
    [self |-> self,
     result |-> List(<<
        Str("2^1+24.Co1 (Baby Monster normalizer)"),
        Str("2^2+11+22.(M24 " \o Times \o " S3)"),
        Str("3^1+12.2.Suz.2"),
        Str("2^5+10+20.(S3 " \o Times \o " L5(2))"),
        Str("5^1+6.2.J2.4"),
        Str("7^1+4.(3 " \o Times \o " 2S7)"),
        Str("11^1+2.(5 " \o Times \o " 2S5)"),
        Str("13^1+2.(3 " \o Times \o " 4S4)"),
        Str("(D10 " \o Times \o " HN).2"),
        Str("2^10+16.O10^+(2)") >>)]

get_conjugacy_classes_count(self) ==
    [self |-> self, result |-> PyInt(<<194>>)]

get_character_table_info(self) ==
    [self |-> self,
     result |-> Dict(<<
        <<"irreducible_representations", PyInt(<<194>>)>>,
        <<"smallest_faithful_representation", PyInt(<<883, 196>>)>>,
        <<"moonshine_connection", Bool(TRUE)>>,
        <<"j_invariant_coefficients",
          List(<<PyInt(<<884, 196>>), PyInt(<<760, 493, 21>>),
                 PyInt(<<970, 299, 864>>), Ellipsis>>)>> >>)]

MonsterGroup__str__(self) ==
    [self |-> self,
     result |-> Str("Monster Group (M) - Order: " \o BigToStr(ORDER))]

MonsterGroup__repr__(self) ==
    [self |-> self,
     result |-> Str("MonsterGroup(order=" \o BigToStr(ORDER) \o ")")]

---------------------------------------------------------------------------
(* class MonsterElement                                                    *)

\* the argument of a call that passes none
Absent == [t |-> "absent"]

\* a default that replaces None alone, and so keeps the empty string
OrIdentityNoneOnly(element_id) ==
    IF element_id = None THEN Str("e") ELSE element_id

\* element_id or "e"
OrIdentity(element_id) == IF Truthy(element_id) THEN element_id ELSE Str("e")

MonsterElement__init__(arg) ==
    LET element_id == IF arg = Absent THEN None ELSE arg
    IN  [element_id |-> OrIdentity(element_id), group |-> MonsterGroup__init__]

is_identity(self) ==
    [self |-> self, result |-> Bool(self.element_id = Str("e"))]

\* an order() that answers 0 where the order is not computed
MonsterElement_orderZero(self) ==
    [self |-> self,
     result |-> IF self.element_id = Str("e") THEN PyInt(<<1>>)
                ELSE PyInt(<< >>)]

MonsterElement_order(self) ==
    LET i == is_identity(self)
    IN  [self |-> i.self,
         result |-> IF i.result.b THEN PyInt(<<1>>) ELSE None]

conjugacy_class(self) ==
    LET i == is_identity(self)
    IN  [self |-> i.self,
         result |-> IF i.result.b THEN Str("1A") ELSE None]

\* str() of the element_id inside an f-string
IdStr(self) == self.element_id.s

\* a __str__ that rewrites the identifier it prints
MonsterElement__str__Renaming(self) ==
    [self |-> [self EXCEPT !.element_id = Str("e")],
     result |-> Str("MonsterElement(" \o self.element_id.s \o ")")]

MonsterElement__str__(self) ==
    [self |-> self, result |-> Str("MonsterElement(" \o IdStr(self) \o ")")]

MonsterElement__repr__(self) ==
    [self |-> self,
     result |-> Str("MonsterElement(element_id='" \o IdStr(self) \o "')")]

---------------------------------------------------------------------------
(* monster_utils.format_large_number.  An int argument is [neg, mag].      *)

\* n > 0
IsPositive(n) == ~n.neg /\ n.mag # << >>

\* int(math.log10(n)): math.log10 raises ValueError unless n > 0
IntLog10(n) ==
    IF IsPositive(n) THEN [raised |-> FALSE, v |-> Log10Int(n.mag)]
    ELSE [raised |-> TRUE, v |-> 0]

\* a guard that lets zero through: if n >= 0
ScientificGuardNonNegative(n) == ~n.neg

\* the test that guards the scientific notation: if n > 0
ScientificGuard(n) == IsPositive(n)

\* f"{mantissa:.2f} x 10^{exponent}"
Scientific(mantissa, exponent) ==
    Format2f(mantissa) \o " " \o Times \o " 10^" \o TopStr(exponent)

\* f"{formatted} (~ {scientific})"
Rendering(formatted, scientific) ==
    Str(formatted \o " (" \o AlmostEqual \o " " \o scientific \o ")")

\* the return, with the locals of the branch n > 0
ReturnScientific(n, formatted, exponent, mantissa, scientific) ==
    [result |-> Rendering(formatted, scientific), formatted |-> formatted,
     log10_calls |-> <<n>>, exponent |-> <<exponent>>,
     mantissa |-> <<mantissa>>, hundredths |-> <<Hundredths(mantissa)>>,
     scientific |-> <<scientific>>]

\* mantissa = n / (10 ** exponent) and the lines after it
AfterLog10(n, formatted, exponent) ==
    Let(TrueDiv(n.mag, Pow10(exponent)), LAMBDA mantissa :
        Let(Scientific(mantissa, exponent), LAMBDA scientific :
            ReturnScientific(n, formatted, exponent, mantissa, scientific)))

\* exponent = int(math.log10(n)) and the lines after it
AfterGuard(n, formatted, lg) ==
    IF lg.raised
    THEN [result |-> Raised("ValueError"), formatted |-> formatted,
          log10_calls |-> <<n>>, exponent |-> << >>, mantissa |-> << >>,
          hundredths |-> << >>, scientific |-> << >>]
    ELSE AfterLog10(n, formatted, lg.v)

\* The value returned, with the locals as the call leaves them: a local that
\* was never bound is << >>; log10_calls lists the arguments math.log10 got.
format_large_number(n) ==
    Let(FormatComma(n), LAMBDA formatted :
        IF ScientificGuard(n)
        THEN Let(IntLog10(n), LAMBDA lg : AfterGuard(n, formatted, lg))
        ELSE [result |-> Rendering(formatted, "0"), formatted |-> formatted,
              log10_calls |-> << >>, exponent |-> << >>, mantissa |-> << >>,
              hundredths |-> << >>, scientific |-> <<"0">>])

---------------------------------------------------------------------------
(* monster_utils.compare_group_orders                                      *)

\* math.factorial
RECURSIVE Factorial(_)
Factorial(n) == IF n = 0 THEN <<1>> ELSE MulSmall(Factorial(n - 1), n)

\* the groups list: (category, dict of name -> order), in insertion order
ReferenceGroups(monster_order) ==
    << <<"Symmetric S_n groups",
         << <<"S_5", Factorial(5)>>,
            <<"S_10", Factorial(10)>>,
            <<"S_20", Factorial(20)>> >> >>,
       <<"Sporadic groups",
         << <<"Mathieu M_24", Groups(<<244, 823, 40>>)>>,
            <<"Conway Co_1", Groups(<<4, 157, 776, 806, 543, 360, 0>>)>>,
            <<"Baby Monster B",
              Groups(<<4, 154, 781, 481, 226, 426, 191, 177, 580, 544, 0, 0>>)>>,
            <<"Monster M", monster_order>> >> >> >>

\* ratio = monster_order / order if order != monster_order else 1
Ratio(monster_order, order) ==
    IF order # monster_order
    THEN [t |-> "float", f |-> TrueDiv(monster_order, order)]
    ELSE [t |-> "int", mag |-> <<1>>]

\* -1, 0 or 1 as ratio < 1, ratio == 1, ratio > 1
RatioCmpOne(ratio) ==
    IF ratio.t = "float" THEN FloatCmpOne(ratio.f)
    ELSE BigCmp(ratio.mag, <<1>>)

\* a description with the two wordings exchanged
DescribeSwapped(ratio) ==
    Let(RatioCmpOne(ratio), LAMBDA c :
        IF c > 0
        THEN "Monster is " \o Format2e(ratio.f) \o " times smaller"
        ELSE IF c = 0 THEN "Same as Monster"
        ELSE "Monster is " \o Format2e(FloatRecip(ratio.f))
                 \o " times larger")

\* the if / elif / else that words the description
Describe(ratio) ==
    Let(RatioCmpOne(ratio), LAMBDA c :
        IF c > 0
        THEN "Monster is " \o Format2e(ratio.f) \o " times larger"
        ELSE IF c = 0 THEN "Same as Monster"
        ELSE "Monster is " \o Format2e(FloatRecip(ratio.f))
                 \o " times smaller")

\* the body of the inner loop: the triple appended for one group
Comparison(monster_order, name, order) ==
    Let(Ratio(monster_order, order), LAMBDA ratio :
        <<name, order, Describe(ratio)>>)

\* for name, order in group_dict.items()
RECURSIVE CompareItems(_, _, _, _)
CompareItems(monster_order, items, i, comparisons) ==
    IF i > Len(items) THEN comparisons
    ELSE Let(Append(comparisons,
                    Comparison(monster_order, items[i][1], items[i][2])),
             LAMBDA nxt : CompareItems(monster_order, items, i + 1, nxt))

\* for category, group_dict in groups
RECURSIVE CompareGroups(_, _, _, _)
CompareGroups(monster_order, groups, g, comparisons) ==
    IF g > Len(groups) THEN comparisons
    ELSE Let(CompareItems(monster_order, groups[g][2], 1, comparisons),
             LAMBDA nxt : CompareGroups(monster_order, groups, g + 1, nxt))

compare_group_orders ==
    LET monster_order == ORDER
    IN  CompareGroups(monster_order, ReferenceGroups(monster_order), 1, << >>)

---------------------------------------------------------------------------
(* The program as a state machine.  verify_order is taken statement by     *)
(* statement; every other call is one step, from its entry to its return.  *)

\* how many calls are counted after the one memo remembers
MaxSince == 2

\* format_large_number is called with every n, -MaxSmall <= n <= MaxSmall
MaxSmall == 50

\* the exponents and claimed orders of the tables a test supplies
MaxExp == 2

MaxClaimed == 12

VARIABLES
    monster,    \* a MonsterGroup instance: its attributes
    element,    \* a MonsterElement instance: its attributes; None before
    heap,       \* the live dict objects: reference -> items
    held,       \* the reference to the mapping each caller holds, 0 for none
    dirty,      \* a caller has changed a mapping it received
    pc,         \* "idle", or "loop" inside verify_order
    locals,     \* the locals of verify_order
    stub,       \* the table and order a test supplies in place of
                \* get_factorization() and ORDER; None in the shipped program
    ret,        \* the last call that returned: [op, arg, val]
    memo,       \* some earlier call on the same objects, as it returned
    since,      \* the calls that returned since memo's, up to MaxSince
    frame       \* the locals format_large_number left

vars == <<monster, element, heap, held, dirty, pc, locals, stub, ret, memo,
          since, frame>>

NoRet == [op |-> "", arg |-> None, val |-> None]

NoLocals == [factorization |-> 0, it |-> 0, calculated_order |-> << >>]

EmptyHeap == [r \in {} |-> << >>]

Callers == {"a", "b"}

\* h without the object r, unless a reference in refs still reaches it
Release(h, r, refs) ==
    IF r \in refs THEN h ELSE [x \in DOMAIN h \ {r} |-> h[x]]

\* self.get_factorization() and self.ORDER, through the test's overrides
Call_get_factorization(self, h) ==
    IF stub = None THEN get_factorization(self, h)
    ELSE LET d == NewDict(h, stub.table)
         IN  [self |-> self, result |-> d.ref, heap |-> d.heap]

Self_ORDER == IF stub = None THEN ORDER ELSE stub.ORDER

\* a call returns: ret holds it, and memo may take it up
Returns(op, arg, val) ==
    /\ ret' = [op |-> op, arg |-> arg, val |-> val]
    /\ \E keep \in BOOLEAN :
          IF keep /\ memo # NoRet
          THEN /\ memo' = memo
               /\ since' = IF since < MaxSince THEN since + 1 ELSE since
          ELSE /\ memo' = ret'
               /\ since' = 0

GroupCall(op, r) ==
    /\ pc = "idle"
    /\ monster' = r.self
    /\ Returns(op, None, r.result)
    /\ UNCHANGED <<element, heap, held, dirty, pc, locals, stub, frame>>

Order == GroupCall("MonsterGroup.order", MonsterGroup_order(monster))

Name == GroupCall("MonsterGroup.name", MonsterGroup_name(monster))

Symbol == GroupCall("MonsterGroup.symbol", MonsterGroup_symbol(monster))

IsSporadic == GroupCall("is_sporadic", is_sporadic(monster))

IsSimple == GroupCall("is_simple", is_simple(monster))

\* the mapping is looked at and let go
GetFactorization ==
    LET g == get_factorization(monster, heap)
    IN  GroupCall("get_factorization",
                  [self |-> g.self, result |-> Dict(g.heap[g.result])])

GetMaximalSubgroupsInfo ==
    GroupCall("get_maximal_subgroups_info", get_maximal_subgroups_info(monster))

GetConjugacyClassesCount ==
    GroupCall("get_conjugacy_classes_count",
              get_conjugacy_classes_count(monster))

GetCharacterTableInfo ==
    GroupCall("get_character_table_info", get_character_table_info(monster))

GroupStr == GroupCall("MonsterGroup.__str__", MonsterGroup__str__(monster))

GroupRepr == GroupCall("MonsterGroup.__repr__", MonsterGroup__repr__(monster))

\* factorization = self.get_factorization(); calculated_order = 1
VerifyBegin ==
    /\ pc = "idle"
    /\ LET b == verify_order_begin(Call_get_factorization(monster, heap))
       IN  /\ monster' = b.self
           /\ heap' = b.heap
           /\ locals' = [factorization |-> b.factorization, it |-> 1,
                         calculated_order |-> b.calculated_order]
    /\ pc' = "loop"
    /\ ret' = NoRet
    /\ UNCHANGED <<element, held, dirty, stub, memo, since, frame>>

\* one pass of: for prime, power in factorization.items()
VerifyLoop ==
    /\ pc = "loop"
    /\ locals.it <= Len(heap[locals.factorization])
    /\ LET item == heap[locals.factorization][locals.it]
       IN  locals' = [locals EXCEPT
                        !.calculated_order =
                            verify_order_body(@, item[1], item[2]),
                        !.it = @ + 1]
    /\ UNCHANGED <<monster, element, heap, held, dirty, pc, stub, ret, memo,
                   since, frame>>

\* the loop is over: return calculated_order == self.ORDER
VerifyReturn ==
    /\ pc = "loop"
    /\ locals.it > Len(heap[locals.factorization])
    /\ Returns("verify_order", None,
               verify_order_return(locals.calculated_order, Self_ORDER))
    /\ heap' = Release(heap, locals.factorization,
                       {held[c] : c \in Callers})
    /\ locals' = NoLocals
    /\ pc' = "idle"
    /\ UNCHANGED <<monster, element, held, dirty, stub, frame>>

\* the arguments MonsterElement is built with
ElementArgs ==
    {Absent, None, Str(""), Str("e"), Str("g"), Str("g1"), Str("test")}

Construct(arg) ==
    /\ pc = "idle"
    /\ element' = MonsterElement__init__(arg)
    /\ ret' = [op |-> "MonsterElement.__init__", arg |-> arg, val |-> None]
    /\ memo' = NoRet
    /\ since' = 0
    /\ UNCHANGED <<monster, heap, held, dirty, pc, locals, stub, frame>>

ElementCall(op, r) ==
    /\ pc = "idle"
    /\ element # None
    /\ element' = r.self
    /\ Returns(op, None, r.result)
    /\ UNCHANGED <<monster, heap, held, dirty, pc, locals, stub, frame>>

IsIdentity == ElementCall("is_identity", is_identity(element))

ElementOrder == ElementCall("MonsterElement.order", MonsterElement_order(element))

ConjugacyClass == ElementCall("conjugacy_class", conjugacy_class(element))

ElementStr == ElementCall("MonsterElement.__str__", MonsterElement__str__(element))

ElementRepr ==
    ElementCall("MonsterElement.__repr__", MonsterElement__repr__(element))

\* a MonsterGroup has been constructed, and nothing called
Start(s) ==
    /\ monster = MonsterGroup__init__
    /\ element = None
    /\ heap = EmptyHeap
    /\ held = [c \in Callers |-> 0]
    /\ dirty = FALSE
    /\ pc = "idle"
    /\ locals = NoLocals
    /\ stub = s
    /\ ret = NoRet
    /\ memo = NoRet
    /\ since = 0
    /\ frame = None

Init == Start(None)

Next ==
    \/ Order
    \/ Name
    \/ Symbol
    \/ IsSporadic
    \/ IsSimple
    \/ GetFactorization
    \/ VerifyBegin
    \/ VerifyLoop
    \/ VerifyReturn
    \/ GetMaximalSubgroupsInfo
    \/ GetConjugacyClassesCount
    \/ GetCharacterTableInfo
    \/ GroupStr
    \/ GroupRepr
    \/ \E arg \in ElementArgs : Construct(arg)
    \/ IsIdentity
    \/ ElementOrder
    \/ ConjugacyClass
    \/ ElementStr
    \/ ElementRepr

Spec == Init /\ [][Next]_vars

---------------------------------------------------------------------------
(* Properties of MonsterGroup and MonsterElement, under Spec.              *)

ThePrimes == {2, 3, 5, 7, 11, 13, 17, 19, 23, 29, 31, 41, 47, 59, 71}

\* C1: verify_order() returns True for the shipped data: when the loop has
\* gone over the 15 entries of get_factorization(), the accumulated product
\* is exactly the literal ORDER, and the call returns True.
C1_VerifyOrderTrue ==
    /\ (pc = "loop" /\ locals.it = 16) => locals.calculated_order = ORDER
    /\ (pc = "loop" /\ locals.it > Len(heap[locals.factorization]))
          => locals.it = 16
    /\ ret.op = "verify_order" => ret.val = Bool(TRUE)

C1_Verified ==
    /\ ret.op = "verify_order"
    /\ ret.val = Bool(TRUE)
    /\ stub = None

\* C3: every call to get_factorization() returns a mapping whose keys are
\* exactly the 15 primes, with exponents 46, 20, 9, 6 for 2, 3, 5, 7, and
\* every exponent a positive integer.
C3_FactorizationTable ==
    ret.op = "get_factorization" =>
        LET items == ret.val.items
            Exp(p) == {items[i][2] : i \in {j \in 1..Len(items) : items[j][1] = p}}
        IN  /\ ret.val.t = "dict"
            /\ Len(items) = 15
            /\ Keys(items) = ThePrimes
            /\ Exp(2) = {46}
            /\ Exp(3) = {20}
            /\ Exp(5) = {9}
            /\ Exp(7) = {6}
            /\ \A i \in 1..Len(items) : items[i][2] \in Nat \ {0}

C3_TableReturned ==
    /\ ret.op = "get_factorization"
    /\ Keys(ret.val.items) = ThePrimes
    /\ memo.op = "get_factorization"
    /\ since > 0

\* C4: the derived values of a MonsterElement follow from element_id alone:
\* is_identity is True exactly when element_id is "e"; order() is 1 for the
\* identity and None otherwise; conjugacy_class() is "1A" for the identity
\* and None otherwise; so order() == 1 iff conjugacy_class() == "1A" iff
\* is_identity.
C4_DerivedValues ==
    LET identity == element.element_id = Str("e")
    IN  /\ ret.op = "is_identity" => ret.val = Bool(identity)
        /\ ret.op = "MonsterElement.order" =>
              ret.val = IF identity THEN PyInt(<<1>>) ELSE None
        /\ ret.op = "conjugacy_class" =>
              ret.val = IF identity THEN Str("1A") ELSE None
        /\ (memo.op = "MonsterElement.order" /\ ret.op = "conjugacy_class")
              => (memo.val = PyInt(<<1>>) <=> ret.val = Str("1A"))
        /\ (memo.op = "is_identity" /\ ret.op = "MonsterElement.order")
              => (memo.val = Bool(TRUE) <=> ret.val = PyInt(<<1>>))

C4_NotComputed ==
    /\ element # None
    /\ element.element_id = Str("g1")
    /\ memo.op = "MonsterElement.order"
    /\ memo.val = None
    /\ ret.op = "conjugacy_class"
    /\ ret.val = None

\* C5: a MonsterElement built with no identifier, with None or with the
\* empty string has element_id "e"; built with a non-empty string s it has
\* element_id s.
C5_Constructor ==
    ret.op = "MonsterElement.__init__" =>
        element.element_id =
            IF ret.arg \in {Absent, None, Str("")} THEN Str("e") ELSE ret.arg

C5_EmptyString ==
    /\ ret.op = "MonsterElement.__init__"
    /\ ret.arg = Str("")
    /\ element.element_id = Str("e")

QueryOps ==
    {"MonsterGroup.order", "MonsterGroup.name", "MonsterGroup.symbol",
     "is_sporadic", "is_simple", "get_factorization", "verify_order",
     "get_maximal_subgroups_info", "get_conjugacy_classes_count",
     "get_character_table_info", "MonsterGroup.__str__",
     "MonsterGroup.__repr__", "is_identity", "MonsterElement.order",
     "conjugacy_class", "MonsterElement.__str__", "MonsterElement.__repr__"}

\* C9: every query is pure and idempotent: no step other than a
\* construction changes a field of the group or of the element, and a query
\* that returns gives what the same query gave earlier on the same objects,
\* whatever queries came in between.
C9_PureQueries ==
    [][/\ ret'.op # "MonsterElement.__init__"
            => (monster' = monster /\ element' = element)
       /\ (ret'.op \in QueryOps /\ ret'.op = memo.op)
            => ret'.val = memo.val]_vars

C9_AskedAgain ==
    /\ element # None
    /\ element.element_id = Str("g")
    /\ memo.op = "MonsterElement.__str__"
    /\ ret = memo
    /\ since = MaxSince

---------------------------------------------------------------------------
(* verify_order over the tables a test supplies: a subclass overrides      *)
(* get_factorization() and ORDER, and the loop of verify_order is the same. *)

TestPrimes == {2, 3, 5}

\* the tables over TestPrimes with exponents up to MaxExp, the empty one
\* included, in every insertion order
TestTables ==
    {T \in UNION {[1..k -> TestPrimes \X (1..MaxExp)] :
                     k \in 0..Cardinality(TestPrimes)} :
        \A i, j \in DOMAIN T : i # j => T[i][1] # T[j][1]}

RECURSIVE IntPow(_, _)
IntPow(p, e) == IF e = 0 THEN 1 ELSE p * IntPow(p, e - 1)

\* the product of prime^exponent over a set of entries
RECURSIVE SetProduct(_)
SetProduct(S) ==
    IF S = {} THEN 1
    ELSE LET x == CHOOSE y \in S : TRUE
         IN  IntPow(x[1], x[2]) * SetProduct(S \ {x})

Entries(T) == {T[i] : i \in DOMAIN T}

\* the orders a test claims for T: the small ones, and the true one
ClaimedOrders(T) == (0..MaxClaimed) \cup {SetProduct(Entries(T))}

InitTables ==
    \E T \in TestTables :
        \E O \in ClaimedOrders(T) :
            Start([table |-> T, ORDER |-> IntToBig(O)])

\* the result is read and dropped
Discard ==
    /\ pc = "idle"
    /\ ret # NoRet
    /\ ret' = NoRet
    /\ frame' = None
    /\ UNCHANGED <<monster, element, heap, held, dirty, pc, locals, stub,
                   memo, since>>

NextTables ==
    \/ VerifyBegin
    \/ VerifyLoop
    \/ VerifyReturn
    \/ Discard

SpecTables == InitTables /\ [][NextTables]_vars

\* C2: for every table T and claimed order O in place of get_factorization()
\* and ORDER, the loop starts its accumulator at 1, multiplies it by
\* prime^exponent once for each entry of T, and verify_order returns True
\* iff the product over the entries of T equals O, whatever the order the
\* entries are visited in.
C2_VerifyLoop ==
    /\ pc = "loop" =>
          /\ heap[locals.factorization] = stub.table
          /\ locals.it \in 1..(Len(stub.table) + 1)
          /\ locals.it = 1 => locals.calculated_order = <<1>>
          /\ locals.calculated_order =
                IntToBig(SetProduct({stub.table[i] : i \in 1..(locals.it - 1)}))
    /\ ret.op = "verify_order" =>
          ret.val = Bool(IntToBig(SetProduct(Entries(stub.table))) = stub.ORDER)

C2_UnsortedTableVerified ==
    /\ ret.op = "verify_order"
    /\ ret.val = Bool(TRUE)
    /\ Len(stub.table) = 3
    /\ stub.table[1] = <<5, 2>>
    /\ stub.table[2] = <<2, 1>>

---------------------------------------------------------------------------
(* Callers of get_factorization that keep the mapping they received and    *)
(* write to it.  The callers' steps interleave with one another and with   *)
(* the statements of a verify_order in progress.                           *)

\* the keys a caller writes or deletes: one of the table, one outside it
MutKeys == {2, 73}

\* the exponent a caller writes
NewExponents == {1}

RECURSIVE DictIndex(_, _, _)
DictIndex(items, k, i) ==
    IF i > Len(items) THEN 0
    ELSE IF items[i][1] = k THEN i ELSE DictIndex(items, k, i + 1)

\* d[k] = v
DictSet(items, k, v) ==
    LET i == DictIndex(items, k, 1)
    IN  IF i = 0 THEN Append(items, <<k, v>>)
        ELSE [items EXCEPT ![i] = <<k, v>>]

\* del d[k], for a key d has
DictDel(items, k) ==
    LET i == DictIndex(items, k, 1)
    IN  SubSeq(items, 1, i - 1) \o SubSeq(items, i + 1, Len(items))

\* another MonsterGroup() is constructed and used from here on
ConstructGroup ==
    /\ pc = "idle"
    /\ monster' = MonsterGroup__init__
    /\ ret' = [op |-> "MonsterGroup.__init__", arg |-> None, val |-> None]
    /\ UNCHANGED <<element, heap, held, dirty, pc, locals, stub, memo, since,
                   frame>>

\* c calls get_factorization() and keeps the mapping
CallerGet(c) ==
    /\ held[c] = 0
    /\ LET g == Call_get_factorization(monster, heap)
       IN  /\ monster' = g.self
           /\ heap' = g.heap
           /\ held' = [held EXCEPT ![c] = g.result]
           /\ ret' = [op |-> "get_factorization", arg |-> None,
                       val |-> Dict(g.heap[g.result])]
    /\ UNCHANGED <<element, dirty, pc, locals, stub, memo, since, frame>>

\* c adds or changes an entry of the mapping it holds
CallerSet(c, k, v) ==
    /\ held[c] # 0
    /\ heap' = [heap EXCEPT ![held[c]] = DictSet(@, k, v)]
    /\ dirty' = TRUE
    /\ ret' = NoRet
    /\ UNCHANGED <<monster, element, held, pc, locals, stub, memo, since,
                   frame>>

\* c removes an entry of the mapping it holds
CallerDel(c, k) ==
    /\ held[c] # 0
    /\ k \in Keys(heap[held[c]])
    /\ heap' = [heap EXCEPT ![held[c]] = DictDel(@, k)]
    /\ dirty' = TRUE
    /\ ret' = NoRet
    /\ UNCHANGED <<monster, element, held, pc, locals, stub, memo, since,
                   frame>>

\* c lets its mapping go
CallerDrop(c) ==
    /\ held[c] # 0
    /\ heap' = Release(heap, held[c],
                       {held[d] : d \in Callers \ {c}}
                          \cup {locals.factorization})
    /\ held' = [held EXCEPT ![c] = 0]
    /\ UNCHANGED <<monster, element, dirty, pc, locals, stub, ret, memo,
                   since, frame>>

NextCallers ==
    \/ ConstructGroup
    \/ \E c \in Callers : CallerGet(c)
    \/ \E c \in Callers, k \in MutKeys, v \in NewExponents : CallerSet(c, k, v)
    \/ \E c \in Callers, k \in MutKeys : CallerDel(c, k)
    \/ \E c \in Callers : CallerDrop(c)
    \/ VerifyBegin
    \/ VerifyLoop
    \/ VerifyReturn

SpecCallers == Init /\ [][NextCallers]_vars

\* C10: the factorization table is not shared mutable state: whatever the
\* callers have added to, removed from or changed in the mappings they
\* received, a call to get_factorization() returns a mapping no one else
\* holds, with the original 15 entries, and verify_order() returns True.
C10_NotShared ==
    /\ ret.op = "get_factorization" => ret.val = Dict(FactorizationLiteral)
    /\ ret.op = "verify_order" => ret.val = Bool(TRUE)
    /\ \A c, d \in Callers : (c # d /\ held[c] # 0) => held[c] # held[d]
    /\ pc = "loop" =>
          /\ locals.factorization \notin {held[c] : c \in Callers}
          /\ heap[locals.factorization] = FactorizationLiteral

C10_CalledAfterWrites ==
    /\ dirty
    /\ ret.op = "get_factorization"
    /\ ret.val = Dict(FactorizationLiteral)
    /\ held["a"] # 0
    /\ 2 \notin Keys(heap[held["a"]])
    /\ 73 \in Keys(heap[held["a"]])
    /\ held["b"] # 0
    /\ heap[held["b"]] = FactorizationLiteral

---------------------------------------------------------------------------
(* The functions of monster_utils, each called and its result dropped.     *)

\* magnitudes beyond MaxSmall: around the powers of ten, and the Monster's
LargeMagnitudes ==
    {Groups(<<999>>), Groups(<<1, 0>>), Groups(<<1, 5>>), Groups(<<1, 15>>),
     Groups(<<9, 999>>), Groups(<<999, 999>>), Groups(<<1, 234, 567>>),
     Groups(<<999, 999, 999, 999, 997>>),
     Groups(<<999, 999, 999, 999, 999>>),
     Groups(<<1, 0, 0, 0, 0, 0>>),
     Groups(<<99, 999, 999, 999, 999, 999>>),
     ORDER}

FormatInputs ==
    {[neg |-> s, mag |-> m] :
        s \in BOOLEAN,
        m \in {IntToBig(k) : k \in 0..MaxSmall} \cup LargeMagnitudes}
    \ {[neg |-> TRUE, mag |-> << >>]}

FormatLargeNumber(n) ==
    /\ pc = "idle"
    /\ ret = NoRet
    /\ \E r \in {format_large_number(n)} :
          /\ ret' = [op |-> "format_large_number", arg |-> n,
                     val |-> r.result]
          /\ frame' = [formatted |-> r.formatted,
                       log10_calls |-> r.log10_calls,
                       exponent |-> r.exponent, mantissa |-> r.mantissa,
                       hundredths |-> r.hundredths,
                       scientific |-> r.scientific]
    /\ UNCHANGED <<monster, element, heap, held, dirty, pc, locals, stub,
                   memo, since>>

CompareGroupOrders ==
    /\ pc = "idle"
    /\ ret = NoRet
    /\ ret' = [op |-> "compare_group_orders", arg |-> None,
               val |-> List(compare_group_orders)]
    /\ UNCHANGED <<monster, element, heap, held, dirty, pc, locals, stub,
                   memo, since, frame>>

NextUtils ==
    \/ \E n \in FormatInputs : FormatLargeNumber(n)
    \/ CompareGroupOrders
    \/ Discard

SpecUtils == Init /\ [][NextUtils]_vars

ReferenceNames ==
    <<"S_5", "S_10", "S_20", "Mathieu M_24", "Conway Co_1", "Baby Monster B",
      "Monster M">>

\* C6: compare_group_orders() returns one (name, order, description) triple
\* per reference group in the fixed order, and words each one of three
\* ways: "Same as Monster" exactly when the order equals ORDER, "times
\* larger" exactly when ORDER is greater, "times smaller" exactly when it is
\* less; the entry "Monster M" has order ORDER and reads "Same as Monster".
C6_Comparisons ==
    ret.op = "compare_group_orders" =>
        LET c == ret.val.items
            Larger(order) ==
                "Monster is " \o Format2e(TrueDiv(ORDER, order))
                    \o " times larger"
            Smaller(order) ==
                "Monster is " \o Format2e(FloatRecip(TrueDiv(ORDER, order)))
                    \o " times smaller"
            Worded(order) ==
                LET k == BigCmp(ORDER, order)
                IN  IF k = 0 THEN "Same as Monster"
                    ELSE IF k > 0 THEN Larger(order) ELSE Smaller(order)
        IN  /\ Len(c) = 7
            /\ \A i \in 1..7 :
                  /\ Len(c[i]) = 3
                  /\ c[i][1] = ReferenceNames[i]
                  /\ c[i][3] = Worded(c[i][2])
                  /\ (c[i][3] = "Same as Monster") <=> (c[i][2] = ORDER)
            /\ c[7] = <<"Monster M", ORDER, "Same as Monster">>
            /\ c[1][2] = <<120>>

C6_Compared ==
    /\ ret.op = "compare_group_orders"
    /\ ret.val.items[6][1] = "Baby Monster B"
    /\ ret.val.items[6][3] = "Monster is 1.94e+20 times larger"
    /\ ret.val.items[7][3] = "Same as Monster"

\* C7: for every n > 0, format_large_number(n) renders an exponent equal to
\* floor(log10(n)), the number of decimal digits of n less one, and a
\* mantissa equal to n / 10^exponent rounded to two decimal places (either
\* neighbour where n / 10^exponent lies half way); for n = 1000 the grouped
\* form is "1,000", the mantissa "1.00" and the exponent 3.
C7_ScientificPart ==
    (ret.op = "format_large_number" /\ IsPositive(ret.arg)) =>
        LET n == ret.arg.mag
            e == DecLen(n) - 1
            p == Pow10(e)
            h == frame.hundredths[1]
            a == BigMul(h, p)
            b == MulSmall(n, 100)
            d == IF BigCmp(a, b) >= 0 THEN BigSub(a, b) ELSE BigSub(b, a)
        IN  /\ frame.exponent = <<e>>
            /\ BigCmp(MulSmall(d, 2), p) <= 0
            /\ n = <<0, 1>> =>
                  /\ frame.formatted = "1,000"
                  /\ frame.scientific = <<"1.00 " \o Times \o " 10^3">>
                  /\ ret.val = Str("1,000 (" \o AlmostEqual \o " 1.00 "
                                   \o Times \o " 10^3)")

\* C8: for every n <= 0, format_large_number(n) does not fail: it returns
\* the comma-grouped n followed by the parenthesized placeholder "0", and
\* math.log10 is never called on a non-positive argument.
C8_NonPositive ==
    ret.op = "format_large_number" =>
        /\ \A i \in 1..Len(frame.log10_calls) :
              IsPositive(frame.log10_calls[i])
        /\ ~IsPositive(ret.arg) =>
              /\ ret.val = Str(frame.formatted \o " (" \o AlmostEqual
                               \o " 0)")
              /\ frame.scientific = <<"0">>
              /\ frame.log10_calls = << >>
              /\ frame.formatted =
                    (IF ret.arg.neg THEN "-" ELSE "")
                        \o FormatComma([neg |-> FALSE, mag |-> ret.arg.mag])
              /\ ret.arg.mag = << >> => frame.formatted = "0"
              /\ ret.arg.mag = <<7>> => frame.formatted = "-7"
              /\ ret.arg.mag = <<0, 1>> => frame.formatted = "-1,000"
              /\ ret.arg.mag = <<567, 234, 1>> =>
                    frame.formatted = "-1,234,567"

C8_Placeholder ==
    /\ ret.op = "format_large_number"
    /\ ret.arg = [neg |-> TRUE, mag |-> <<0, 1>>]
    /\ ret.val = Str("-1,000 (" \o AlmostEqual \o " 0)")
    /\ frame.log10_calls = << >>

\* C11: the scientific part is normalized: for every n > 0 the mantissa as
\* printed, after rounding to two decimal places, is at least 1.00 and
\* strictly less than 10.00, also for inputs just below a power of ten such
\* as 9999 or 999999.
C11_NormalizedMantissa ==
    (ret.op = "format_large_number" /\ IsPositive(ret.arg)) =>
        /\ Len(frame.hundredths) = 1
        /\ BigCmp(frame.hundredths[1], <<100>>) >= 0
        /\ BigCmp(frame.hundredths[1], <<0, 1>>) < 0
        /\ frame.scientific # <<"10.00 " \o Times \o " 10^3">>

=============================================================================
